---- MODULE Spec2Model ----
(***************************************************************************)
(* Model of the iOS CoreAudio (RemoteIO) backend of cpal:                  *)
(*   src/host/coreaudio/ios/mod.rs      (backend "ios_mod")                *)
(*   src/host/coreaudio/coreaudio_ios.rs (backend "coreaudio_ios")         *)
(* The two files are two versions of the same backend; `backend` records   *)
(* which one is compiled.  They differ in build_output_stream_raw, where   *)
(* ios/mod.rs has the valid_config gate commented out.                     *)
(*                                                                         *)
(* The control path (build_output_stream_raw, play, pause, drop) and the   *)
(* native render thread (the closure given to set_render_callback) are     *)
(* interleaved.  build_output_stream_raw is split at its native calls.     *)
(***************************************************************************)
EXTENDS Integers, Sequences, FiniteSets, TLC

VARIABLES
    backend,       \* which source file is compiled
    pc,            \* position of build_output_stream_raw
    bcfg,          \* config and sample format of the build in progress
    bcalls,        \* native calls issued by the build in progress / last build
    au,            \* the native AudioUnit (RemoteIO endpoint)
    stream,        \* TRUE iff a Stream handle exists
    playing,       \* StreamInner.playing
    lastOp,        \* the last control-path call and what it returned
    cyc,           \* render thread: "idle" or "inflight"
    args,          \* render_callback::Args of the invocation in flight
    last,          \* what the last completed render invocation did
    failedBefore,  \* an earlier cycle of this stream had a host-time failure
    process,       \* "running", or how a panic ended it
    dev,           \* Device calls: position of supported_input_configs, the
                   \* transient recording unit, and the last call's result
    conc           \* play/pause calls of concurrent threads, step by step

vars == <<backend, pc, bcfg, bcalls, au, stream, playing, lastOp,
          cyc, args, last, failedBefore, process, dev, conc>>

---------------------------------------------------------------------------
(* Program constants *)

MIN_CHANNELS == 1
MAX_CHANNELS == 2
MIN_SAMPLE_RATE == 44100
MAX_SAMPLE_RATE == 44100
DEFAULT_SAMPLE_RATE == 44100
MIN_BUFFER_SIZE == 512
MAX_BUFFER_SIZE == 512
DEFAULT_BUFFER_SIZE == 512
SUPPORTED_SAMPLE_FORMAT == "F32"

---------------------------------------------------------------------------
(* Bounds and input sets *)

\* Largest representable StreamInstant, in microseconds (scaled-down range).
InstantMax == 20000

Backends == {"ios_mod", "coreaudio_ios"}
ChannelCounts == {0, 1, 2, 3}
SampleRates == {44100, 48000}
SampleFormats == {"F32", "I16"}
BufferSizes == { [tag |-> "Default", v |-> 0],
                 [tag |-> "Fixed", v |-> 0],
                 [tag |-> "Fixed", v |-> 512] }
StreamConfigs == [channels : ChannelCounts, sample_rate : SampleRates,
                  buffer_size : BufferSizes]

\* host ticks delivered by the native layer; 480000 ticks convert to InstantMax
HostTimes == {3000, 480000}
BufferChannels == {0, 1, 2}
ByteSizes == {0, 8, 2048}

\* kinds of coreaudio::Error a native call can fail with
NativeErrors == {"RenderCallbackBufferFormatDoesNotMatchAudioUnitStreamFormat",
                 "NoMatchingDefaultAudioUnitFound",
                 "AudioUnit_FormatNotSupported",
                 "AudioUnit_InvalidProperty",
                 "AudioUnit_FailedInitialization",
                 "AudioFormat",
                 "Unspecified"}
\* what each native call can return: "ok" or one of its error kinds
NewResults == {"ok", "NoMatchingDefaultAudioUnitFound",
               "AudioUnit_FormatNotSupported", "AudioUnit_FailedInitialization"}
SetPropertyResults == {"ok", "AudioUnit_FormatNotSupported",
                       "AudioUnit_InvalidProperty", "AudioFormat"}
SetCallbackResults == {"ok", "RenderCallbackBufferFormatDoesNotMatchAudioUnitStreamFormat",
                       "AudioUnit_InvalidProperty"}
StartStopResults == {"ok", "AudioUnit_FailedInitialization", "Unspecified"}

---------------------------------------------------------------------------
(* Pure helpers *)

\* the mutant of valid_config: the channel bound is exclusive
valid_config_strict(conf, sample_format) ==
    /\ conf.channels < MAX_CHANNELS
    /\ conf.channels >= MIN_CHANNELS
    /\ conf.sample_rate <= MAX_SAMPLE_RATE
    /\ conf.sample_rate >= MIN_SAMPLE_RATE
    /\ sample_format = SUPPORTED_SAMPLE_FORMAT

\* valid_config (coreaudio_ios.rs)
valid_config(conf, sample_format) ==
    /\ conf.channels <= MAX_CHANNELS
    /\ conf.channels >= MIN_CHANNELS
    /\ conf.sample_rate <= MAX_SAMPLE_RATE
    /\ conf.sample_rate >= MIN_SAMPLE_RATE
    /\ sample_format = SUPPORTED_SAMPLE_FORMAT

\* the validation gate of build_output_stream_raw: present in
\* coreaudio_ios.rs, commented out in ios/mod.rs
ValidationGate(b, conf, sample_format) ==
    IF b = "coreaudio_ios" THEN valid_config(conf, sample_format) ELSE TRUE

\* the mutant of buffer_size_frames: the zero check is missing
buffer_size_frames_nozero(conf) ==
    IF conf.buffer_size.tag = "Fixed"
    THEN [ok |-> TRUE, v |-> conf.buffer_size.v]
    ELSE [ok |-> TRUE, v |-> DEFAULT_BUFFER_SIZE]

\* `let buffer_size_frames = match config.buffer_size { ... }`
buffer_size_frames(conf) ==
    IF conf.buffer_size.tag = "Fixed"
    THEN IF conf.buffer_size.v = 0
         THEN [ok |-> FALSE, v |-> 0]
         ELSE [ok |-> TRUE, v |-> conf.buffer_size.v]
    ELSE [ok |-> TRUE, v |-> DEFAULT_BUFFER_SIZE]

\* impl From<coreaudio::Error> for BuildStreamError
FromCoreaudioError(err) ==
    IF err \in {"RenderCallbackBufferFormatDoesNotMatchAudioUnitStreamFormat",
                "NoKnownSubtype",
                "AudioUnit_FormatNotSupported",
                "AudioCodec",
                "AudioFormat"}
    THEN "StreamConfigNotSupported"
    ELSE "DeviceNotAvailable"

\* SampleFormat::sample_size
sample_size(fmt) == IF fmt = "F32" THEN 4 ELSE 2

---------------------------------------------------------------------------
(* State *)

NoCfg == [channels |-> 0, sample_rate |-> 0,
          buffer_size |-> [tag |-> "Default", v |-> 0], format |-> "none"]

NoClosure == [registered |-> FALSE, bytes_per_channel |-> 0, sample_rate |-> 0]

\* no AudioUnit instance (never created, or dropped)
NoAu == [exists |-> FALSE, formatSet |-> FALSE, running |-> FALSE, cb |-> NoClosure]

NoOp == [op |-> "none", cfg |-> NoCfg, pre |-> FALSE, native |-> "none",
         res |-> "none", step |-> "none", nerr |-> "none"]

NoArgs == [hostTime |-> 0, convOk |-> FALSE, channels |-> 0, byteSize |-> 0]

NoCycle == [ran |-> FALSE, args |-> NoArgs, outcome |-> "none", err |-> 0,
            data |-> 0, ret |-> "none", len |-> 0, callback |-> 0,
            delay |-> 0, playback |-> 0, afterFailure |-> FALSE,
            frames |-> 0, prints |-> 0]

NoRange == [channels |-> 0, min_sample_rate |-> 0, max_sample_rate |-> 0,
            buffer_size |-> [min |-> 0, max |-> 0], sample_format |-> "none"]

NoConfig == [channels |-> 0, sample_rate |-> 0,
             buffer_size |-> [min |-> 0, max |-> 0], sample_format |-> "none"]

\* no transient AudioUnit (not created, or dropped)
NoProbe == [exists |-> FALSE, initialized |-> FALSE,
            inputEnabled |-> FALSE, outputEnabled |-> FALSE]

\* no Device call made yet
NoDev == [pc |-> "idle", caller |-> "none", probe |-> NoProbe,
          op |-> "none", res |-> "none", why |-> "none",
          enumRes |-> "none", step |-> "none", nerr |-> "none",
          cfgs |-> <<>>, range |-> NoRange, config |-> NoConfig]

Threads == {"t1", "t2"}

\* no play/pause call in progress on any thread; the RefCell is not borrowed
NoConc == [pc |-> [t \in Threads |-> "idle"],
           op |-> [t \in Threads |-> "none"],
           res |-> [t \in Threads |-> "none"],
           borrow |-> 0,
           holders |-> {}]

Init ==
    /\ backend \in Backends
    /\ pc = "idle"
    /\ bcfg = NoCfg
    /\ bcalls = <<>>
    /\ au = NoAu
    /\ stream = FALSE
    /\ playing = FALSE
    /\ lastOp = NoOp
    /\ cyc = "idle"
    /\ args = NoArgs
    /\ last = NoCycle
    /\ failedBefore = FALSE
    /\ process = "running"
    /\ dev = NoDev
    /\ conc = NoConc

renderVars == <<cyc, args, last, failedBefore, process>>


---------------------------------------------------------------------------
(* Control path: build_output_stream_raw *)

\* record of a finished build_output_stream_raw call
BuildOp(cfg, res, step, nerr) ==
    [op |-> "build", cfg |-> cfg, pre |-> FALSE, native |-> "none",
     res |-> res, step |-> step, nerr |-> nerr]

\* `?` on a failed native call: the error is converted with From, the function
\* returns Err, and the local `audio_unit` (if any) goes out of scope, which
\* stops and disposes the instance and frees its render callback.
BuildFail(step, nerr) ==
    /\ pc' = "idle"
    /\ bcfg' = NoCfg
    /\ au' = NoAu
    /\ lastOp' = BuildOp(bcfg, FromCoreaudioError(nerr), step, nerr)
    /\ UNCHANGED <<stream, playing>>

\* entry of build_output_stream_raw up to the first native call
BuildBegin(conf, sample_format) ==
    /\ process = "running"
    /\ pc = "idle"
    /\ ~stream
    /\ LET cfg == [channels |-> conf.channels, sample_rate |-> conf.sample_rate,
                   buffer_size |-> conf.buffer_size, format |-> sample_format]
       IN /\ bcalls' = <<>>
          /\ IF ~ValidationGate(backend, conf, sample_format)
             THEN /\ lastOp' = BuildOp(cfg, "StreamConfigNotSupported", "validate", "none")
                  /\ UNCHANGED <<pc, bcfg>>
             ELSE IF ~buffer_size_frames(conf).ok
             THEN /\ lastOp' = BuildOp(cfg, "StreamConfigNotSupported", "buffer_size", "none")
                  /\ UNCHANGED <<pc, bcfg>>
             ELSE /\ pc' = "new"
                  /\ bcfg' = cfg
                  /\ lastOp' = [NoOp EXCEPT !.op = "building", !.cfg = cfg]
    /\ UNCHANGED <<dev, conc, backend, au, stream, playing, renderVars>>

\* the mutant of BuildNewAudioUnit: the callback is registered next, before
\* the stream format is set
BuildNewAudioUnit_skip_format(r) ==
    /\ process = "running"
    /\ pc = "new"
    /\ bcalls' = Append(bcalls, "AudioUnit::new")
    /\ IF r = "ok"
       THEN /\ au' = [NoAu EXCEPT !.exists = TRUE]
            /\ pc' = "register"
            /\ UNCHANGED <<bcfg, lastOp, stream, playing>>
       ELSE BuildFail("AudioUnit::new", r)
    /\ UNCHANGED <<dev, conc, backend, renderVars>>

\* `let mut audio_unit = AudioUnit::new(au_type)?;`
BuildNewAudioUnit(r) ==
    /\ process = "running"
    /\ pc = "new"
    /\ bcalls' = Append(bcalls, "AudioUnit::new")
    /\ IF r = "ok"
       THEN /\ au' = [NoAu EXCEPT !.exists = TRUE]
            /\ pc' = "set_format"
            /\ UNCHANGED <<bcfg, lastOp, stream, playing>>
       ELSE BuildFail("AudioUnit::new", r)
    /\ UNCHANGED <<dev, conc, backend, renderVars>>

\* `audio_unit.set_property(kAudioUnitProperty_StreamFormat, ...)?;`
BuildSetFormat(r) ==
    /\ process = "running"
    /\ pc = "set_format"
    /\ bcalls' = Append(bcalls, "set_property")
    /\ IF r = "ok"
       THEN /\ au' = [au EXCEPT !.formatSet = TRUE]
            /\ pc' = "register"
            /\ UNCHANGED <<bcfg, lastOp, stream, playing>>
       ELSE BuildFail("set_property", r)
    /\ UNCHANGED <<dev, conc, backend, renderVars>>

\* `audio_unit.set_render_callback(move |args| ...)?;`  The closure captures
\* bytes_per_channel = sample_format.sample_size() and config.sample_rate.
BuildRegister(r) ==
    /\ process = "running"
    /\ pc = "register"
    /\ bcalls' = Append(bcalls, "set_render_callback")
    /\ IF r = "ok"
       THEN /\ au' = [au EXCEPT !.cb = [registered |-> TRUE,
                                       bytes_per_channel |-> sample_size(bcfg.format),
                                       sample_rate |-> bcfg.sample_rate]]
            /\ pc' = "start"
            /\ UNCHANGED <<bcfg, lastOp, stream, playing>>
       ELSE BuildFail("set_render_callback", r)
    /\ UNCHANGED <<dev, conc, backend, renderVars>>

\* the mutant of BuildStart: the result of start() is ignored
BuildStart_IgnoreErr(r) ==
    /\ process = "running"
    /\ pc = "start"
    /\ bcalls' = Append(bcalls, "start")
    /\ au' = [au EXCEPT !.running = (r = "ok")]
    /\ stream' = TRUE
    /\ playing' = TRUE
    /\ pc' = "idle"
    /\ bcfg' = NoCfg
    /\ lastOp' = BuildOp(bcfg, "Ok", IF r = "ok" THEN "none" ELSE "start",
                         IF r = "ok" THEN "none" ELSE r)
    /\ UNCHANGED <<dev, conc, backend, renderVars>>

\* the mutant of BuildStart: StreamInner is created with playing: false
BuildStart_NotPlaying(r) ==
    /\ process = "running"
    /\ pc = "start"
    /\ bcalls' = Append(bcalls, "start")
    /\ IF r = "ok"
       THEN /\ au' = [au EXCEPT !.running = TRUE]
            /\ stream' = TRUE
            /\ playing' = FALSE
            /\ pc' = "idle"
            /\ bcfg' = NoCfg
            /\ lastOp' = BuildOp(bcfg, "Ok", "none", "none")
       ELSE BuildFail("start", r)
    /\ UNCHANGED <<dev, conc, backend, renderVars>>

\* `audio_unit.start()?; Ok(Stream::new(StreamInner { playing: true, audio_unit }))`
BuildStart(r) ==
    /\ process = "running"
    /\ pc = "start"
    /\ bcalls' = Append(bcalls, "start")
    /\ IF r = "ok"
       THEN /\ au' = [au EXCEPT !.running = TRUE]
            /\ stream' = TRUE
            /\ playing' = TRUE
            /\ pc' = "idle"
            /\ bcfg' = NoCfg
            /\ lastOp' = BuildOp(bcfg, "Ok", "none", "none")
       ELSE BuildFail("start", r)
    /\ UNCHANGED <<dev, conc, backend, renderVars>>

---------------------------------------------------------------------------
(* Control path: play, pause, drop *)

\* record of a finished play, pause or drop: the recorded state before the
\* call, the native call it issued, what that returned, and the result
StreamOp(op, pre, native, nerr, res) ==
    [op |-> op, cfg |-> NoCfg, pre |-> pre, native |-> native,
     res |-> res, step |-> "none", nerr |-> nerr]

\* the mutant of play: the `if !stream.playing` test is missing
play_always_start(r) ==
    /\ process = "running"
    /\ stream
    /\ IF r = "ok"
       THEN /\ au' = [au EXCEPT !.running = TRUE]
            /\ playing' = TRUE
            /\ lastOp' = StreamOp("play", playing, "start", "ok", "Ok")
       ELSE /\ lastOp' = StreamOp("play", playing, "start", r, "BackendSpecific")
            /\ UNCHANGED <<au, playing>>
    /\ UNCHANGED <<dev, conc, backend, pc, bcfg, bcalls, stream, renderVars>>

\* the mutant of play: `stream.playing = true` is set before start() is tried
play_set_before_start(r) ==
    /\ process = "running"
    /\ stream
    /\ IF ~playing
       THEN IF r = "ok"
            THEN /\ au' = [au EXCEPT !.running = TRUE]
                 /\ playing' = TRUE
                 /\ lastOp' = StreamOp("play", playing, "start", "ok", "Ok")
            ELSE /\ lastOp' = StreamOp("play", playing, "start", r, "BackendSpecific")
                 /\ playing' = TRUE
                 /\ UNCHANGED au
       ELSE /\ lastOp' = StreamOp("play", playing, "none", "none", "Ok")
            /\ UNCHANGED <<au, playing>>
    /\ UNCHANGED <<dev, conc, backend, pc, bcfg, bcalls, stream, renderVars>>

\* Stream::play; r is what the native AudioOutputUnitStart returns if called.
\* A failed native call leaves the endpoint as it was.
play(r) ==
    /\ process = "running"
    /\ stream
    /\ IF ~playing
       THEN IF r = "ok"
            THEN /\ au' = [au EXCEPT !.running = TRUE]
                 /\ playing' = TRUE
                 /\ lastOp' = StreamOp("play", playing, "start", "ok", "Ok")
            ELSE /\ lastOp' = StreamOp("play", playing, "start", r, "BackendSpecific")
                 /\ UNCHANGED <<au, playing>>
       ELSE /\ lastOp' = StreamOp("play", playing, "none", "none", "Ok")
            /\ UNCHANGED <<au, playing>>
    /\ UNCHANGED <<dev, conc, backend, pc, bcfg, bcalls, stream, renderVars>>

\* the mutant of pause: the flag is cleared without stopping the endpoint
pause_no_stop(r) ==
    /\ process = "running"
    /\ stream
    /\ IF playing
       THEN /\ playing' = FALSE
            /\ lastOp' = StreamOp("pause", playing, "none", "none", "Ok")
            /\ UNCHANGED au
       ELSE /\ lastOp' = StreamOp("pause", playing, "none", "none", "Ok")
            /\ UNCHANGED <<au, playing>>
    /\ UNCHANGED <<dev, conc, backend, pc, bcfg, bcalls, stream, renderVars>>

\* the mutant of pause: the flag is cleared before stop() is tried
pause_clear_before_stop(r) ==
    /\ process = "running"
    /\ stream
    /\ IF playing
       THEN IF r = "ok"
            THEN /\ au' = [au EXCEPT !.running = FALSE]
                 /\ playing' = FALSE
                 /\ lastOp' = StreamOp("pause", playing, "stop", "ok", "Ok")
            ELSE /\ lastOp' = StreamOp("pause", playing, "stop", r, "BackendSpecific")
                 /\ playing' = FALSE
                 /\ UNCHANGED au
       ELSE /\ lastOp' = StreamOp("pause", playing, "none", "none", "Ok")
            /\ UNCHANGED <<au, playing>>
    /\ UNCHANGED <<dev, conc, backend, pc, bcfg, bcalls, stream, renderVars>>

\* Stream::pause; r is what the native AudioOutputUnitStop returns if called.
pause(r) ==
    /\ process = "running"
    /\ stream
    /\ IF playing
       THEN IF r = "ok"
            THEN /\ au' = [au EXCEPT !.running = FALSE]
                 /\ playing' = FALSE
                 /\ lastOp' = StreamOp("pause", playing, "stop", "ok", "Ok")
            ELSE /\ lastOp' = StreamOp("pause", playing, "stop", r, "BackendSpecific")
                 /\ UNCHANGED <<au, playing>>
       ELSE /\ lastOp' = StreamOp("pause", playing, "none", "none", "Ok")
            /\ UNCHANGED <<au, playing>>
    /\ UNCHANGED <<dev, conc, backend, pc, bcfg, bcalls, stream, renderVars>>

\* the mutant of DropStream: the handle goes away but the AudioUnit is leaked
DropStream_leak ==
    /\ process = "running"
    /\ stream
    /\ cyc = "idle"
    /\ stream' = FALSE
    /\ playing' = FALSE
    /\ lastOp' = StreamOp("drop", playing, "none", "none", "Ok")
    /\ last' = NoCycle
    /\ failedBefore' = FALSE
    /\ UNCHANGED <<dev, conc, backend, pc, bcfg, bcalls, au, cyc, args, process>>

\* The Stream handle goes out of scope: StreamInner and its AudioUnit are
\* dropped; the instance is stopped and disposed and its callback freed.
\* Disposal waits for a render invocation in flight.
DropStream ==
    /\ process = "running"
    /\ stream
    /\ cyc = "idle"
    /\ stream' = FALSE
    /\ playing' = FALSE
    /\ au' = NoAu
    /\ lastOp' = StreamOp("drop", playing, "dispose", "ok", "Ok")
    /\ last' = NoCycle
    /\ failedBefore' = FALSE
    /\ UNCHANGED <<dev, conc, backend, pc, bcfg, bcalls, cyc, args, process>>

---------------------------------------------------------------------------
(* Timestamps *)

\* mach_timebase_info of the device: nanoseconds = ticks * numer / denom
TimebaseNumer == 125
TimebaseDenom == 3

\* host_time_to_stream_instant: the instant in microseconds, or an error when
\* the native time-base query fails (ok = FALSE)
host_time_to_stream_instant(m_host_time, ok) ==
    IF ok
    THEN [ok |-> TRUE, v |-> ((m_host_time * TimebaseNumer) \div TimebaseDenom) \div 1000]
    ELSE [ok |-> FALSE, v |-> 0]

\* frames_to_duration: frames / rate seconds, in microseconds
frames_to_duration(frames, rate) == (frames * 1000000) \div rate

\* StreamInstant::add: checked addition, None beyond the representable range
StreamInstantAdd(instant, duration) ==
    IF instant + duration > InstantMax
    THEN [some |-> FALSE, v |-> 0]
    ELSE [some |-> TRUE, v |-> instant + duration]

\* the mutant of PlaybackOf: the sum wraps instead of panicking
PlaybackOf_wrapping(callback, delay) ==
    [panic |-> FALSE, v |-> (callback + delay) % (InstantMax + 1)]

\* `callback.add(delay).expect("`playback` occurs beyond representation ...")`
PlaybackOf(callback, delay) ==
    LET r == StreamInstantAdd(callback, delay)
    IN IF r.some THEN [panic |-> FALSE, v |-> r.v] ELSE [panic |-> TRUE, v |-> 0]

---------------------------------------------------------------------------
(* Render thread: the closure registered with set_render_callback *)

RenderArgs == [hostTime : HostTimes, convOk : BOOLEAN,
               channels : BufferChannels, byteSize : ByteSizes]

\* the native layer starts a buffer-ready invocation: only on a running
\* endpoint with a registered callback, and never two at once
RenderBegin(a) ==
    /\ process = "running"
    /\ cyc = "idle"
    /\ au.exists /\ au.running /\ au.cb.registered
    /\ cyc' = "inflight"
    /\ args' = a
    /\ UNCHANGED <<dev, conc, backend, pc, bcfg, bcalls, au, stream, playing, lastOp,
                   last, failedBefore, process>>

\* the mutant of CycleOf: the byte size is taken as the length in samples
CycleOf_bytes_as_len(a, closure, after) ==
    LET len == a.byteSize
        conv == host_time_to_stream_instant(a.hostTime, a.convOk)
        base == [NoCycle EXCEPT !.ran = TRUE, !.args = a, !.len = len,
                                !.afterFailure = after]
    IN IF ~conv.ok
       THEN \* println!("doh err"); error_callback(err.into()); return Err(())
            [base EXCEPT !.outcome = "error", !.err = 1, !.ret = "Err",
                         !.prints = 1]
       ELSE IF a.channels = 0
       THEN \* `len / channels as usize`: attempt to divide by zero
            [base EXCEPT !.outcome = "panic", !.callback = conv.v]
       ELSE LET buffer_frames == len \div a.channels
                delay == frames_to_duration(buffer_frames, closure.sample_rate)
                pb == PlaybackOf(conv.v, delay)
            IN IF pb.panic
               THEN [base EXCEPT !.outcome = "panic", !.callback = conv.v,
                                 !.frames = buffer_frames, !.delay = delay]
               ELSE [base EXCEPT !.outcome = "data", !.data = 1, !.ret = "Ok",
                                 !.callback = conv.v, !.frames = buffer_frames,
                                 !.delay = delay, !.playback = pb.v]

\* what one run of the closure body does with args a, given the captured
\* bytes_per_channel and sample_rate
CycleOf(a, closure, after) ==
    LET len == a.byteSize \div closure.bytes_per_channel
        conv == host_time_to_stream_instant(a.hostTime, a.convOk)
        base == [NoCycle EXCEPT !.ran = TRUE, !.args = a, !.len = len,
                                !.afterFailure = after]
    IN IF ~conv.ok
       THEN \* println!("doh err"); error_callback(err.into()); return Err(())
            [base EXCEPT !.outcome = "error", !.err = 1, !.ret = "Err",
                         !.prints = 1]
       ELSE IF a.channels = 0
       THEN \* `len / channels as usize`: attempt to divide by zero
            [base EXCEPT !.outcome = "panic", !.callback = conv.v]
       ELSE LET buffer_frames == len \div a.channels
                delay == frames_to_duration(buffer_frames, closure.sample_rate)
                pb == PlaybackOf(conv.v, delay)
            IN IF pb.panic
               THEN [base EXCEPT !.outcome = "panic", !.callback = conv.v,
                                 !.frames = buffer_frames, !.delay = delay]
               ELSE [base EXCEPT !.outcome = "data", !.data = 1, !.ret = "Ok",
                                 !.callback = conv.v, !.frames = buffer_frames,
                                 !.delay = delay, !.playback = pb.v]

\* The closure body runs to its end.  A panic inside it unwinds into the
\* extern "C" trampoline of the native render callback: depending on the
\* toolchain the process aborts there or the unwind enters native frames.
RenderRun(how) ==
    /\ process = "running"
    /\ cyc = "inflight"
    /\ LET c == CycleOf(args, au.cb, failedBefore)
       IN /\ last' = c
          /\ failedBefore' = (failedBefore \/ c.outcome = "error")
          /\ process' = IF c.outcome = "panic" THEN how ELSE "running"
    /\ cyc' = "idle"
    /\ args' = NoArgs
    /\ UNCHANGED <<dev, conc, backend, pc, bcfg, bcalls, au, stream, playing, lastOp>>

---------------------------------------------------------------------------
(* Device: supported configs and default configs *)

\* the stream format the hardware reports for the input scope
HardwareFormats == [channels : {1, 2}, sample_rate : {44100, 48000}]

CreateResults == {"ok", "NoMatchingDefaultAudioUnitFound"}
UninitializeResults == {"ok", "AudioUnit_FailedInitialization"}
EnableIOResults == {"ok", "AudioUnit_InvalidProperty"}
InitializeResults == {"ok", "AudioUnit_FailedInitialization"}
GetPropertyResults == {"ok", "AudioUnit_InvalidProperty"}

\* the mutant of FromCoreaudioErrorConfigs: mapped to DeviceNotAvailable
FromCoreaudioErrorConfigs_dna(err) == "DeviceNotAvailable"

\* impl From<coreaudio::Error> for SupportedStreamConfigsError
FromCoreaudioErrorConfigs(err) == "BackendSpecific"

\* the mutant of supported_output_configs: MIN_CHANNELS..MAX_CHANNELS exclusive
supported_output_configs_exclusive ==
    [i \in 1..(MAX_CHANNELS - MIN_CHANNELS) |->
        [channels |-> MIN_CHANNELS + i - 1,
         min_sample_rate |-> MIN_SAMPLE_RATE,
         max_sample_rate |-> MAX_SAMPLE_RATE,
         buffer_size |-> [min |-> MIN_BUFFER_SIZE, max |-> MAX_BUFFER_SIZE],
         sample_format |-> SUPPORTED_SAMPLE_FORMAT]]

\* Device::supported_output_configs: one range per channel count of
\* MIN_CHANNELS..=MAX_CHANNELS, in that order
supported_output_configs ==
    [i \in 1..(MAX_CHANNELS - MIN_CHANNELS + 1) |->
        [channels |-> MIN_CHANNELS + i - 1,
         min_sample_rate |-> MIN_SAMPLE_RATE,
         max_sample_rate |-> MAX_SAMPLE_RATE,
         buffer_size |-> [min |-> MIN_BUFFER_SIZE, max |-> MAX_BUFFER_SIZE],
         sample_format |-> SUPPORTED_SAMPLE_FORMAT]]

\* the one range Device::supported_input_configs builds from the format read
\* back from the hardware
InputRangeOf(asbd) ==
    [channels |-> asbd.channels,
     min_sample_rate |-> asbd.sample_rate,
     max_sample_rate |-> asbd.sample_rate,
     buffer_size |-> [min |-> MIN_BUFFER_SIZE, max |-> MAX_BUFFER_SIZE],
     sample_format |-> SUPPORTED_SAMPLE_FORMAT]

\* SupportedStreamConfigRange::cmp_default_heuristics, as a <= test: higher
\* channel count first, then a range holding the preferred rate, then the
\* higher maximum rate
cmp_default_heuristics_le(a, b) ==
    LET pref(r) == IF r.min_sample_rate <= DEFAULT_SAMPLE_RATE
                      /\ DEFAULT_SAMPLE_RATE <= r.max_sample_rate THEN 1 ELSE 0
    IN IF a.channels # b.channels THEN a.channels < b.channels
       ELSE IF pref(a) # pref(b) THEN pref(a) < pref(b)
       ELSE a.max_sample_rate <= b.max_sample_rate

\* Iterator::max_by: the last of the maximal elements of a non-empty sequence
RECURSIVE max_by(_)
max_by(cfgs) ==
    IF Len(cfgs) = 1 THEN cfgs[1]
    ELSE LET m == max_by(SubSeq(cfgs, 1, Len(cfgs) - 1))
             x == cfgs[Len(cfgs)]
         IN IF cmp_default_heuristics_le(m, x) THEN x ELSE m

\* SupportedStreamConfigRange::with_sample_rate: the range narrowed to one
\* rate; defined only for a rate inside the range
with_sample_rate(range, rate) ==
    IF range.min_sample_rate <= rate /\ rate <= range.max_sample_rate
    THEN [ok |-> TRUE,
          config |-> [channels |-> range.channels, sample_rate |-> rate,
                      buffer_size |-> range.buffer_size,
                      sample_format |-> range.sample_format]]
    ELSE [ok |-> FALSE, config |-> NoConfig]

\* the mutant of DefaultConfigOf: the first range is taken, not the maximum
DefaultConfigOf_first(enumRes, cfgs) ==
    IF enumRes # "Ok"
    THEN [res |-> "panic", why |-> "expect", range |-> NoRange, config |-> NoConfig]
    ELSE IF cfgs = <<>>
    THEN [res |-> "panic", why |-> "unwrap", range |-> NoRange, config |-> NoConfig]
    ELSE LET w == with_sample_rate(cfgs[1], DEFAULT_SAMPLE_RATE)
         IN IF w.ok
            THEN [res |-> "Ok", why |-> "none", range |-> cfgs[1], config |-> w.config]
            ELSE [res |-> "panic", why |-> "with_sample_rate",
                  range |-> cfgs[1], config |-> NoConfig]

\* the mutant of DefaultConfigOf: the config is built with the default rate
\* directly, without narrowing the range
DefaultConfigOf_unchecked(enumRes, cfgs) ==
    IF enumRes # "Ok"
    THEN [res |-> "panic", why |-> "expect", range |-> NoRange, config |-> NoConfig]
    ELSE IF cfgs = <<>>
    THEN [res |-> "panic", why |-> "unwrap", range |-> NoRange, config |-> NoConfig]
    ELSE LET m == max_by(cfgs)
         IN [res |-> "Ok", why |-> "none", range |-> m,
             config |-> [channels |-> m.channels, sample_rate |-> DEFAULT_SAMPLE_RATE,
                         buffer_size |-> m.buffer_size,
                         sample_format |-> m.sample_format]]

\* the body shared by default_input_config and default_output_config:
\* `.expect(EXPECT).max_by(..).unwrap().with_sample_rate(DEFAULT_SAMPLE_RATE)`
DefaultConfigOf(enumRes, cfgs) ==
    IF enumRes # "Ok"
    THEN [res |-> "panic", why |-> "expect", range |-> NoRange, config |-> NoConfig]
    ELSE IF cfgs = <<>>
    THEN [res |-> "panic", why |-> "unwrap", range |-> NoRange, config |-> NoConfig]
    ELSE LET m == max_by(cfgs)
             w == with_sample_rate(m, DEFAULT_SAMPLE_RATE)
         IN IF w.ok
            THEN [res |-> "Ok", why |-> "none", range |-> m, config |-> w.config]
            ELSE [res |-> "panic", why |-> "with_sample_rate",
                  range |-> m, config |-> NoConfig]

devOther == <<backend, pc, bcfg, bcalls, au, stream, playing, lastOp,
              cyc, args, last, failedBefore, conc>>

\* a Device call returns (or panics): d is the new record of the call
DevFinish(d) ==
    /\ dev' = d
    /\ process' = IF d.res = "panic" THEN "panicked" ELSE "running"
    /\ UNCHANGED devOther

\* Device::supported_output_configs
SupportedOutputConfigs ==
    /\ process = "running"
    /\ dev.pc = "idle"
    /\ DevFinish([NoDev EXCEPT !.op = "supported_output_configs", !.res = "Ok",
                               !.enumRes = "Ok", !.cfgs = supported_output_configs])

\* Device::default_output_config
DefaultOutputConfig ==
    /\ process = "running"
    /\ dev.pc = "idle"
    /\ LET c == DefaultConfigOf("Ok", supported_output_configs)
       IN DevFinish([NoDev EXCEPT !.op = "default_output_config", !.res = c.res,
                                  !.why = c.why, !.enumRes = "Ok",
                                  !.cfgs = supported_output_configs,
                                  !.range = c.range, !.config = c.config])

\* the mutant of InputReturn: on the error path the unit is not dropped
InputReturn_leak(enumRes, cfgs, step, nerr) ==
    LET base == [NoDev EXCEPT !.enumRes = enumRes, !.cfgs = cfgs,
                              !.step = step, !.nerr = nerr,
                              !.probe = IF enumRes = "Ok" THEN NoProbe ELSE dev.probe]
    IN IF dev.caller = "default"
       THEN LET c == DefaultConfigOf(enumRes, cfgs)
            IN DevFinish([base EXCEPT !.op = "default_input_config", !.res = c.res,
                                      !.why = c.why, !.range = c.range,
                                      !.config = c.config])
       ELSE DevFinish([base EXCEPT !.op = "supported_input_configs", !.res = enumRes])

\* supported_input_configs returns, by `?` or at its end: the local
\* audio_unit goes out of scope and is disposed; when the caller is
\* default_input_config, that function's body then runs on the result
InputReturn(enumRes, cfgs, step, nerr) ==
    LET base == [NoDev EXCEPT !.enumRes = enumRes, !.cfgs = cfgs,
                              !.step = step, !.nerr = nerr]
    IN IF dev.caller = "default"
       THEN LET c == DefaultConfigOf(enumRes, cfgs)
            IN DevFinish([base EXCEPT !.op = "default_input_config", !.res = c.res,
                                      !.why = c.why, !.range = c.range,
                                      !.config = c.config])
       ELSE DevFinish([base EXCEPT !.op = "supported_input_configs", !.res = enumRes])

\* one native step of supported_input_configs that returned r: go on to the
\* next step with the unit changed to probe, or leave through `?`
InputStep(step, r, next, probe) ==
    IF r = "ok"
    THEN /\ dev' = [dev EXCEPT !.pc = next, !.probe = probe]
         /\ UNCHANGED process
         /\ UNCHANGED devOther
    ELSE InputReturn(FromCoreaudioErrorConfigs(r), <<>>, step, r)

\* a call of supported_input_configs (caller = "enum") or of
\* default_input_config (caller = "default"), up to create_audio_unit()?.
\* coreaudio_ios.rs has neither body: it returns Ok(empty) and
\* Err(StreamTypeNotSupported).
InputBegin(caller, r) ==
    /\ process = "running"
    /\ dev.pc = "idle"
    /\ IF backend = "coreaudio_ios"
       THEN IF caller = "default"
            THEN DevFinish([NoDev EXCEPT !.op = "default_input_config",
                                         !.res = "StreamTypeNotSupported"])
            ELSE DevFinish([NoDev EXCEPT !.op = "supported_input_configs",
                                         !.res = "Ok", !.enumRes = "Ok"])
       ELSE IF r = "ok"
            THEN /\ dev' = [NoDev EXCEPT !.pc = "uninitialize", !.caller = caller,
                               !.probe = [exists |-> TRUE, initialized |-> TRUE,
                                          inputEnabled |-> FALSE,
                                          outputEnabled |-> TRUE]]
                 /\ UNCHANGED process
                 /\ UNCHANGED devOther
            ELSE /\ dev' = [NoDev EXCEPT
                               !.op = IF caller = "default" THEN "default_input_config"
                                      ELSE "supported_input_configs",
                               !.enumRes = FromCoreaudioErrorConfigs(r),
                               !.res = IF caller = "default" THEN "panic"
                                       ELSE FromCoreaudioErrorConfigs(r),
                               !.why = IF caller = "default" THEN "expect" ELSE "none",
                               !.step = "create_audio_unit", !.nerr = r]
                 /\ process' = IF caller = "default" THEN "panicked" ELSE "running"
                 /\ UNCHANGED devOther

\* `audio_unit.uninitialize()?;`
InputUninitialize(r) ==
    /\ process = "running"
    /\ dev.pc = "uninitialize"
    /\ InputStep("uninitialize", r, "enable_input",
                 [dev.probe EXCEPT !.initialized = FALSE])

\* configure_for_recording: set_property(EnableIO, Input, Input, 1)?
InputEnableInput(r) ==
    /\ process = "running"
    /\ dev.pc = "enable_input"
    /\ InputStep("enable_input", r, "disable_output",
                 [dev.probe EXCEPT !.inputEnabled = TRUE])

\* configure_for_recording: set_property(EnableIO, Output, Output, 0)?
InputDisableOutput(r) ==
    /\ process = "running"
    /\ dev.pc = "disable_output"
    /\ InputStep("disable_output", r, "initialize",
                 [dev.probe EXCEPT !.outputEnabled = FALSE])

\* `audio_unit.initialize()?;`
InputInitialize(r) ==
    /\ process = "running"
    /\ dev.pc = "initialize"
    /\ InputStep("initialize", r, "get_property",
                 [dev.probe EXCEPT !.initialized = TRUE])

\* `audio_unit.get_property(kAudioUnitProperty_StreamFormat, ..)?` and the
\* Ok(vec![range].into_iter()) that follows
InputGetFormat(r, asbd) ==
    /\ process = "running"
    /\ dev.pc = "get_property"
    /\ IF r = "ok"
       THEN InputReturn("Ok", <<InputRangeOf(asbd)>>, "none", "none")
       ELSE InputReturn(FromCoreaudioErrorConfigs(r), <<>>, "get_property", r)

---------------------------------------------------------------------------
\* play and pause called on one Stream from two control-path threads. Each
\* call is taken apart at its accesses to the RefCell and to StreamInner.
\* RefCell keeps its borrow state in a plain Cell<isize>: the test and the
\* update in borrow_mut are two unsynchronised accesses.

ConcOps == {"play", "pause"}

concOther == <<backend, pc, bcfg, bcalls, stream, lastOp, cyc, args, last,
               failedBefore, process, dev>>

\* thread t goes to position next of its call, with result res
ConcGoto(t, next, res) ==
    [conc EXCEPT !.pc[t] = next, !.res[t] = res]

\* thread t enters Stream::play or Stream::pause
ConcCall(t, op) ==
    /\ process = "running"
    /\ stream
    /\ pc = "idle"
    /\ conc.pc[t] = "idle"
    /\ conc' = [conc EXCEPT !.pc[t] = "borrow_read", !.op[t] = op, !.res[t] = "none"]
    /\ UNCHANGED <<au, playing, concOther>>

\* `self.inner.borrow_mut()`, the test of the borrow flag: anything but
\* UNUSED (0) panics with "already borrowed"; the panic unwinds thread t only
ConcBorrowRead(t) ==
    /\ conc.pc[t] = "borrow_read"
    /\ conc' = IF conc.borrow = 0
               THEN ConcGoto(t, "borrow_write", "none")
               ELSE ConcGoto(t, "idle", "panic")
    /\ UNCHANGED <<au, playing, concOther>>

\* `self.inner.borrow_mut()`, the update of the borrow flag to WRITING (-1):
\* thread t now holds a RefMut<StreamInner>
ConcBorrowWrite(t) ==
    /\ conc.pc[t] = "borrow_write"
    /\ conc' = [conc EXCEPT !.pc[t] = "check", !.borrow = -1,
                            !.holders = @ \cup {t}]
    /\ UNCHANGED <<au, playing, concOther>>

\* `if !stream.playing` in play, `if stream.playing` in pause
ConcCheck(t) ==
    /\ conc.pc[t] = "check"
    /\ conc' = IF (conc.op[t] = "play") = ~playing
               THEN ConcGoto(t, "native", "none")
               ELSE ConcGoto(t, "release", "Ok")
    /\ UNCHANGED <<au, playing, concOther>>

\* `stream.audio_unit.start()` in play, `stream.audio_unit.stop()` in pause;
\* r is what the native call returns
ConcNative(t, r) ==
    /\ conc.pc[t] = "native"
    /\ IF r = "ok"
       THEN /\ au' = [au EXCEPT !.running = (conc.op[t] = "play")]
            /\ conc' = ConcGoto(t, "set", "none")
       ELSE /\ conc' = ConcGoto(t, "release", "BackendSpecific")
            /\ UNCHANGED au
    /\ UNCHANGED <<playing, concOther>>

\* `stream.playing = true;` in play, `stream.playing = false;` in pause
ConcSetFlag(t) ==
    /\ conc.pc[t] = "set"
    /\ playing' = (conc.op[t] = "play")
    /\ conc' = ConcGoto(t, "release", "Ok")
    /\ UNCHANGED <<au, concOther>>

\* the call returns: the RefMut is dropped, which adds 1 to the borrow flag
ConcRelease(t) ==
    /\ conc.pc[t] = "release"
    /\ conc' = [conc EXCEPT !.pc[t] = "idle", !.borrow = @ + 1,
                            !.holders = @ \ {t}]
    /\ UNCHANGED <<au, playing, concOther>>

---------------------------------------------------------------------------

Next ==
    \/ \E conf \in StreamConfigs, f \in SampleFormats : BuildBegin(conf, f)
    \/ \E r \in NewResults : BuildNewAudioUnit(r)
    \/ \E r \in SetPropertyResults : BuildSetFormat(r)
    \/ \E r \in SetCallbackResults : BuildRegister(r)
    \/ \E r \in StartStopResults : BuildStart(r)
    \/ \E r \in StartStopResults : play(r)
    \/ \E r \in StartStopResults : pause(r)
    \/ DropStream
    \/ \E a \in RenderArgs : RenderBegin(a)
    \/ \E how \in {"aborted", "unwound"} : RenderRun(how)

Spec == Init /\ [][Next]_vars

\* configs with which streams are built while Device calls are explored
DeviceBuildConfigs ==
    { [channels |-> 2, sample_rate |-> 44100, buffer_size |-> [tag |-> "Default", v |-> 0]],
      [channels |-> 3, sample_rate |-> 44100, buffer_size |-> [tag |-> "Fixed", v |-> 512]] }

\* the Device calls, next to stream builds and drops
DeviceNext ==
    \/ SupportedOutputConfigs
    \/ DefaultOutputConfig
    \/ \E caller \in {"enum", "default"}, r \in CreateResults : InputBegin(caller, r)
    \/ \E r \in UninitializeResults : InputUninitialize(r)
    \/ \E r \in EnableIOResults : InputEnableInput(r)
    \/ \E r \in EnableIOResults : InputDisableOutput(r)
    \/ \E r \in InitializeResults : InputInitialize(r)
    \/ \E r \in GetPropertyResults, asbd \in HardwareFormats : InputGetFormat(r, asbd)
    \/ \E conf \in DeviceBuildConfigs : BuildBegin(conf, "F32")
    \/ \E r \in NewResults : BuildNewAudioUnit(r)
    \/ \E r \in SetPropertyResults : BuildSetFormat(r)
    \/ \E r \in SetCallbackResults : BuildRegister(r)
    \/ \E r \in StartStopResults : BuildStart(r)
    \/ DropStream

DeviceSpec == Init /\ [][DeviceNext]_vars

\* the config with which the stream is built that the threads then share
ConcBuildConfigs ==
    { [channels |-> 2, sample_rate |-> 44100, buffer_size |-> [tag |-> "Default", v |-> 0]] }

\* a stream is built, then two threads call play and pause on it
ConcNext ==
    \/ \E conf \in ConcBuildConfigs : BuildBegin(conf, "F32")
    \/ \E r \in NewResults : BuildNewAudioUnit(r)
    \/ \E r \in SetPropertyResults : BuildSetFormat(r)
    \/ \E r \in SetCallbackResults : BuildRegister(r)
    \/ \E r \in StartStopResults : BuildStart(r)
    \/ \E t \in Threads, op \in ConcOps : ConcCall(t, op)
    \/ \E t \in Threads : ConcBorrowRead(t)
    \/ \E t \in Threads : ConcBorrowWrite(t)
    \/ \E t \in Threads : ConcCheck(t)
    \/ \E t \in Threads, r \in StartStopResults : ConcNative(t, r)
    \/ \E t \in Threads : ConcSetFlag(t)
    \/ \E t \in Threads : ConcRelease(t)

ConcSpec == Init /\ [][ConcNext]_vars

---------------------------------------------------------------------------
(* Properties *)

\* the config of the current or last build passes valid_config
LastCfgValid == valid_config(lastOp.cfg, lastOp.cfg.format)

\* a build_output_stream_raw call is in progress or was the last call
InBuild == lastOp.op \in {"build", "building"}

\* C1: play() on a stream whose recorded state is Playing, and pause() on one
\* whose recorded state is Paused, issue no native start/stop call (the
\* endpoint is untouched), leave the recorded state unchanged and return Ok.
C1_PlayPauseIdempotent ==
    [][ (\/ (playing /\ \E r \in StartStopResults : play(r))
         \/ (~playing /\ \E r \in StartStopResults : pause(r)))
        => /\ au' = au
           /\ playing' = playing
           /\ lastOp'.native = "none"
           /\ lastOp'.res = "Ok" ]_vars

\* C1 witness: play() has just returned on a stream that was already Playing.
C1_Witness ==
    /\ lastOp.op = "play" /\ lastOp.pre /\ lastOp.native = "none"
    /\ stream /\ playing

\* C2: when play() on a paused stream has its native start fail, it returns a
\* backend-specific error and the recorded state stays Paused; when pause()
\* on a playing stream has its native stop fail, it returns a
\* backend-specific error and the recorded state stays Playing.
C2_FailureKeepsState ==
    /\ (lastOp.op = "play" /\ ~lastOp.pre /\ lastOp.nerr \in NativeErrors)
          => (lastOp.res = "BackendSpecific" /\ ~playing)
    /\ (lastOp.op = "pause" /\ lastOp.pre /\ lastOp.nerr \in NativeErrors)
          => (lastOp.res = "BackendSpecific" /\ playing)

\* C2 witness: play() on a paused stream whose native start failed.
C2_Witness ==
    /\ lastOp.op = "play" /\ ~lastOp.pre /\ lastOp.native = "start"
    /\ lastOp.nerr \in NativeErrors

\* C3: a cycle whose host-time conversion fails invokes the error callback
\* exactly once, does not invoke the data callback and returns the no-data
\* signal; every later cycle whose conversion succeeds invokes the data
\* callback.
C3_TimingFailureConfined ==
    last.ran =>
        /\ ~last.args.convOk =>
              (last.err = 1 /\ last.data = 0 /\ last.ret = "Err")
        /\ (last.args.convOk /\ last.afterFailure) => last.data = 1

\* C4: for every requested config outside the supported channel, rate or
\* format bounds, build_output_stream_raw returns StreamConfigNotSupported,
\* and no native endpoint is acquired, no callback registered, nothing started.
C4_ValidationGate ==
    (InBuild /\ ~LastCfgValid) =>
        /\ bcalls = <<>>
        /\ ~au.exists
        /\ lastOp.op = "build" => lastOp.res = "StreamConfigNotSupported"

\* C5: for every config with buffer_size = Fixed(0), build_output_stream_raw
\* returns StreamConfigNotSupported before any native call is made.
C5_ZeroFrameRejected ==
    (InBuild /\ lastOp.cfg.buffer_size = [tag |-> "Fixed", v |-> 0]) =>
        /\ lastOp.op = "build"
        /\ lastOp.res = "StreamConfigNotSupported"
        /\ bcalls = <<>>
        /\ pc = "idle"
        /\ au = NoAu

\* C5 witness: an otherwise valid config with Fixed(0) has been rejected.
C5_Witness ==
    /\ lastOp.op = "build" /\ LastCfgValid
    /\ lastOp.cfg.buffer_size = [tag |-> "Fixed", v |-> 0]
    /\ lastOp.res = "StreamConfigNotSupported"

\* C6: for every config that passes validation with a Default or nonzero Fixed
\* buffer size, a build in which every native call succeeded returns a handle
\* whose recorded state is Playing and whose endpoint has been started.
C6_BuildOkPlaying ==
    (/\ lastOp.op = "build"
     /\ LastCfgValid
     /\ lastOp.cfg.buffer_size # [tag |-> "Fixed", v |-> 0]
     /\ lastOp.nerr = "none")
    => /\ lastOp.res = "Ok"
       /\ stream /\ playing
       /\ au.exists /\ au.formatSet /\ au.cb.registered /\ au.running
       /\ bcalls = <<"AudioUnit::new", "set_property", "set_render_callback", "start">>

\* C6 witness: scenario 1, {channels 2, 44100 Hz, Fixed(512)} with F32.
C6_Witness ==
    /\ lastOp.op = "build" /\ lastOp.res = "Ok"
    /\ lastOp.cfg = [channels |-> 2, sample_rate |-> 44100,
                     buffer_size |-> [tag |-> "Fixed", v |-> 512], format |-> "F32"]
    /\ stream /\ playing /\ au.running

\* C7: whichever step of build_output_stream_raw fails, the call returns an Err
\* value, no stream handle exists afterwards, the endpoint acquired during the
\* call is released and not running, and no data or error callback is invoked
\* for that build.
C7_BuildFailureNoPartialState ==
    /\ (lastOp.op = "build" /\ lastOp.step # "none") =>
          /\ lastOp.res \in {"StreamConfigNotSupported", "DeviceNotAvailable"}
          /\ ~stream
          /\ au = NoAu
          /\ pc = "idle"
          /\ process = "running"
    /\ (pc # "idle" \/ (lastOp.op = "build" /\ lastOp.step # "none")) =>
          (cyc = "idle" /\ last = NoCycle /\ ~au.running)

\* C7 witness: start() failed after the endpoint was acquired and the callback
\* registered; the endpoint is gone.
C7_Witness ==
    /\ lastOp.op = "build" /\ lastOp.step = "start"
    /\ Len(bcalls) = 4 /\ au = NoAu /\ ~stream

\* C8: every failure of setting the stream format is returned as
\* StreamConfigNotSupported and every failure to acquire the endpoint is
\* returned as DeviceNotAvailable.
C8_BuildErrorMapping ==
    lastOp.op = "build" =>
        /\ lastOp.step = "set_property" => lastOp.res = "StreamConfigNotSupported"
        /\ lastOp.step = "AudioUnit::new" => lastOp.res = "DeviceNotAvailable"

\* C9: every buffer-ready invocation returns control to the native layer
\* normally; a zero channel count or a playback instant overflow yields the
\* no-data return, without the data callback.
C9_NoUnwinding ==
    /\ process = "running"
    /\ last.ran =>
          /\ last.ret \in {"Ok", "Err"}
          /\ (last.args.convOk /\
                (last.args.channels = 0 \/ last.callback + last.delay > InstantMax))
             => (last.ret = "Err" /\ last.data = 0)

\* C10: the data callback is only invoked with playback = callback + delay
\* inside the representable range (never a wrapped, smaller value); when the
\* sum exceeds the range the addition fails and the data callback is not
\* invoked.
C10_NoWrappedPlayback ==
    last.ran =>
        /\ last.data = 1 =>
              /\ last.playback = last.callback + last.delay
              /\ last.playback >= last.callback
              /\ last.playback <= InstantMax
        /\ (last.args.convOk /\ last.args.channels # 0
              /\ last.callback + last.delay > InstantMax)
           => (last.outcome = "panic" /\ last.data = 0 /\ last.err = 0)

\* C10 witness: a cycle near the end of the range with a nonzero delay.
C10_Witness ==
    /\ last.ran /\ last.args.convOk /\ last.args.channels # 0
    /\ last.delay > 0 /\ last.callback + last.delay > InstantMax
    /\ last.outcome = "panic"

\* C13: dropping the stream handle, whether Playing or Paused, stops the
\* endpoint and releases it at that moment and not before (the handle always
\* holds a live endpoint), cannot fail, and no buffer-ready invocation begins
\* or is in flight once the handle is gone.
C13_DropReleasesOnce ==
    /\ [][ (stream /\ ~stream') =>
              /\ au.exists
              /\ au' = NoAu
              /\ cyc' = "idle"
              /\ lastOp'.op = "drop" /\ lastOp'.res = "Ok" ]_vars
    /\ [](stream => au.exists)
    /\ []((~stream /\ pc = "idle") => (au = NoAu /\ cyc = "idle"))

\* C13 witness: a paused stream has been dropped and its endpoint is gone.
C13_Witness ==
    /\ lastOp.op = "drop" /\ ~lastOp.pre
    /\ ~stream /\ au = NoAu

\* C14: the native layer begins a buffer-ready invocation only while the
\* recorded state is Playing (so none begins between an Ok pause() and the
\* next successful play()); pause() leaves an invocation in flight untouched,
\* and that invocation can still run to its end.
C14_PauseStopsDelivery ==
    /\ [][ (cyc = "idle" /\ cyc' = "inflight") => (stream /\ playing /\ au.running) ]_vars
    /\ [][ (lastOp'.op = "pause" /\ lastOp' # lastOp) => (cyc' = cyc /\ args' = args) ]_vars
    /\ []((cyc = "inflight" /\ process = "running")
            => ENABLED (\E how \in {"aborted", "unwound"} : RenderRun(how)))

\* C14 witness: pause() returned Ok while an invocation was in flight.
C14_Witness ==
    /\ lastOp.op = "pause" /\ lastOp.pre /\ lastOp.res = "Ok"
    /\ ~playing /\ cyc = "inflight"

\* C16: valid_config is true exactly when 1 <= channels <= 2, the sample rate
\* is 44100 and the format is F32, whatever the buffer size and whatever
\* happened before: where the gate is compiled in, a build is rejected at
\* the validation step exactly for the other configs.
C16_ValidConfigPredicate ==
    (backend = "coreaudio_ios" /\ InBuild) =>
        ( (lastOp.op = "build" /\ lastOp.step = "validate")
          <=> ~( /\ lastOp.cfg.channels \in {1, 2}
                 /\ lastOp.cfg.sample_rate = 44100
                 /\ lastOp.cfg.format = "F32" ) )

\* C16 witness: channels = 0 rejected at the validation step; the buffer size
\* is a usable one.
C16_Witness ==
    /\ backend = "coreaudio_ios"
    /\ lastOp.op = "build" /\ lastOp.step = "validate"
    /\ lastOp.cfg.channels = 0 /\ lastOp.cfg.sample_rate = 44100
    /\ lastOp.cfg.format = "F32"
    /\ lastOp.cfg.buffer_size = [tag |-> "Fixed", v |-> 512]

\* a default_*_config call was the last Device call
DefaultCalled == dev.op \in {"default_input_config", "default_output_config"}

\* C11: default_output_config and default_input_config never panic or abort,
\* and return an Err value whenever the enumeration failed or the enumerated
\* set is empty.
C11_DefaultNeverAborts ==
    /\ process # "panicked"
    /\ DefaultCalled =>
          /\ dev.res # "panic"
          /\ (dev.enumRes # "Ok" \/ dev.cfgs = <<>>) =>
                dev.res \in {"NoSupportedConfig", "StreamTypeNotSupported",
                             "BackendSpecific", "DeviceNotAvailable"}

\* C12 as stated: when a step of the transient recording activation fails,
\* supported_input_configs fails with StreamTypeNotSupported and returns no
\* config range.
C12_InputEnumFailsStreamTypeNotSupported ==
    dev.step # "none" =>
        (dev.enumRes = "StreamTypeNotSupported" /\ dev.cfgs = <<>>)

\* C12 amended: when a step of the transient recording activation fails
\* (create, uninitialize, enable input, disable output, initialize, read the
\* format), supported_input_configs fails with a BackendSpecific error and
\* returns no config range.
C12_InputEnumFailsBackendSpecific ==
    dev.step # "none" =>
        /\ dev.enumRes = "BackendSpecific"
        /\ dev.cfgs = <<>>
        /\ dev.range = NoRange /\ dev.config = NoConfig
        /\ dev.op = "supported_input_configs" => dev.res = "BackendSpecific"

\* C12 witness: reading back the stream format failed, after the unit had
\* been configured for recording.
C12_Witness ==
    /\ dev.op = "supported_input_configs" /\ dev.step = "get_property"
    /\ dev.res = "BackendSpecific" /\ dev.cfgs = <<>>

\* C17: every call of default_output_config returns the same result: the
\* range with the highest channel count (2), at 44100 Hz, buffer range
\* [512, 512], format F32.
C17_DefaultOutputDeterministic ==
    dev.op = "default_output_config" =>
        /\ dev.res = "Ok"
        /\ dev.config = [channels |-> 2, sample_rate |-> 44100,
                         buffer_size |-> [min |-> 512, max |-> 512],
                         sample_format |-> "F32"]

\* C17 witness: default_output_config was called while a stream exists.
C17_Witness ==
    /\ dev.op = "default_output_config" /\ dev.res = "Ok" /\ stream

C19_OutputConfigsWellFormed ==
    dev.op = "supported_output_configs" =>
        /\ dev.res = "Ok"
        /\ Len(dev.cfgs) > 0
        /\ \A c \in MIN_CHANNELS..MAX_CHANNELS :
              Cardinality({i \in 1..Len(dev.cfgs) : dev.cfgs[i].channels = c}) = 1
        /\ \A i \in 1..Len(dev.cfgs) :
              /\ dev.cfgs[i].channels \in MIN_CHANNELS..MAX_CHANNELS
              /\ dev.cfgs[i].channels >= 1
              /\ dev.cfgs[i].min_sample_rate <= dev.cfgs[i].max_sample_rate
              /\ dev.cfgs[i].buffer_size.min <= dev.cfgs[i].buffer_size.max

\* C19 witness: supported_output_configs returned the mono and stereo ranges.
C19_Witness ==
    /\ dev.op = "supported_output_configs" /\ Len(dev.cfgs) = 2
    /\ dev.cfgs[1].channels = 1 /\ dev.cfgs[2].channels = 2

\* C20: whenever no supported_input_configs call is in progress, the unit it
\* reconfigured for recording is gone, on the success path and on every
\* error path; a stream build never runs next to a leftover recording unit.
C20_NoProbeLeak ==
    /\ dev.pc = "idle" => dev.probe = NoProbe
    /\ dev.pc # "idle" => dev.probe.exists
    /\ (dev.pc = "idle" /\ (pc # "idle" \/ stream)) => ~dev.probe.inputEnabled

\* C20 witness: initialize() failed after input was enabled and output
\* disabled, and the unit is gone.
C20_Witness ==
    /\ dev.step = "initialize" /\ dev.pc = "idle" /\ dev.probe = NoProbe

BuildCallOrder == <<"AudioUnit::new", "set_property", "set_render_callback", "start">>

\* C21: for each stream the render callback is registered exactly once,
\* during build, after the stream format was set and before the hardware is
\* started; no buffer-ready invocation occurs before registration or after
\* teardown, and play() and pause() never register the callback again.
C21_CallbackLifecycle ==
    /\ [](/\ Len(bcalls) <= Len(BuildCallOrder)
          /\ bcalls = SubSeq(BuildCallOrder, 1, Len(bcalls))
          /\ au.cb.registered => (au.exists /\ au.formatSet)
          /\ au.running => au.cb.registered
          /\ (cyc = "inflight" \/ last.ran) => (stream /\ au.cb.registered))
    /\ [][au'.cb # au.cb =>
             \/ (pc = "register" /\ ~au.cb.registered /\ ~stream)
             \/ au' = NoAu]_vars

\* C21 witness: a stream was built with the four native calls in order, a
\* buffer-ready cycle ran, and pause() then returned with the callback still
\* registered.
C21_Witness ==
    /\ stream /\ bcalls = BuildCallOrder /\ last.ran
    /\ lastOp.op = "pause" /\ lastOp.native = "stop" /\ au.cb.registered

\* C22: in every buffer-ready cycle whose host-time conversion succeeds and
\* whose playback addition does not overflow, the data callback is invoked
\* exactly once before the bridge returns, the error callback is not
\* invoked, and the timestamp has callback = the converted instant and
\* playback = callback + buffer_frames / sample_rate, so playback >= callback.
C22_SuccessfulCycleDispatch ==
    LET a == last.args
        instant == host_time_to_stream_instant(a.hostTime, a.convOk).v
        overflows ==
            /\ a.channels # 0
            /\ instant + frames_to_duration(
                   (a.byteSize \div au.cb.bytes_per_channel) \div a.channels,
                   au.cb.sample_rate) > InstantMax
    IN (last.ran /\ a.convOk /\ ~overflows) =>
          /\ last.data = 1 /\ last.err = 0 /\ last.ret = "Ok"
          /\ last.callback = instant
          /\ last.playback = instant + frames_to_duration(
                 (a.byteSize \div au.cb.bytes_per_channel) \div a.channels,
                 au.cb.sample_rate)
          /\ last.playback >= last.callback

\* C23: for every buffer-ready notification the buffer length in samples is
\* byte_size div the sample size of the negotiated format, and buffer_frames
\* is that length div the native buffer's channel count; byte_size 2048 with
\* 4-byte samples gives 512 samples, and with 2 channels 256 frames.
C23_BufferSizing ==
    last.ran =>
        /\ last.len * au.cb.bytes_per_channel <= last.args.byteSize
        /\ last.args.byteSize < (last.len + 1) * au.cb.bytes_per_channel
        /\ (lastOp.op = "build" /\ lastOp.cfg.format = "F32"
              /\ last.args.byteSize = 2048) => last.len = 512
        /\ (lastOp.op = "build" /\ lastOp.cfg.format = "I16"
              /\ last.args.byteSize = 2048) => last.len = 1024
        /\ (last.args.convOk /\ last.args.channels > 0) =>
              /\ last.frames * last.args.channels <= last.len
              /\ last.len < (last.frames + 1) * last.args.channels
              /\ (last.len = 512 /\ last.args.channels = 2) => last.frames = 256

\* C23 witness: a cycle with byte_size 2048 and 2 channels on an F32 stream
\* delivered 512 samples in 256 frames to the data callback.
C23_Witness ==
    /\ last.ran /\ last.data = 1 /\ last.args.byteSize = 2048
    /\ last.args.channels = 2 /\ last.len = 512 /\ last.frames = 256

\* C24: on every path through a buffer-ready invocation, the error path
\* included, the bridge performs no I/O (printing), lock acquisition or
\* allocation other than the one user-callback invocation.
C24_RealTimeDiscipline ==
    last.ran =>
        /\ last.prints = 0
        /\ last.err + last.data <= 1

\* C25: after a successful build and any sequence of play() and pause()
\* calls, whose native start/stop may succeed or fail, the recorded playing
\* flag is true exactly when the native endpoint is running; buffer-ready
\* cycles never change the recorded flag.
C25_FlagMatchesEndpoint ==
    /\ [](stream => (playing = au.running))
    /\ [][((\E a \in RenderArgs : RenderBegin(a))
            \/ (\E how \in {"aborted", "unwound"} : RenderRun(how)))
          => (playing' = playing /\ au'.running = au.running)]_vars

\* C25 witness: a buffer-ready cycle ran, then pause() had its native stop
\* fail, and the stream is still recorded as playing on a running endpoint.
C25_Witness ==
    /\ stream /\ last.ran /\ lastOp.op = "pause" /\ lastOp.native = "stop"
    /\ lastOp.res = "BackendSpecific" /\ playing /\ au.running

====
